---- MODULE Spec2Model ----
(***************************************************************************)
(* Model of src/documents/data.py: DocumentOverrides, DocumentSource and   *)
(* ConsumeDocument, together with the file system, the scratch directory,  *)
(* libmagic, pathvalidate, hashlib and dateutil as far as the code uses    *)
(* them.                                                                   *)
(*                                                                         *)
(* Values.  An Optional[T] is a sequence of length 0 (None) or 1.  A file  *)
(* name is a sequence of characters.  A path, and the string that spells   *)
(* it, is a sequence of names whose first element is the anchor: ROOT for  *)
(* an absolute path, REL for a relative one.  A pathlib.Path holds no "."  *)
(* component; a string may.  The empty string is <<REL>>.                  *)
(***************************************************************************)
EXTENDS Integers, Sequences, FiniteSets, TLC

VARIABLES fs, dirs, obj, rec, call, ov, orec, ov2, ocall

vars == <<fs, dirs, obj, rec, call, ov, orec, ov2, ocall>>

docVars == <<fs, dirs, obj, rec, call>>

ovVars == <<ov, orec, ov2, ocall>>

None == <<>>

Some(x) == <<x>>

\* Number of names tempfile.mkdtemp can hand out in one behaviour.
MaxTmp == 1

-----------------------------------------------------------------------------
(* pathlib *)

ROOT == <<"/">>

REL == <<>>

DOT == <<".">>

DOTDOT == <<".", ".">>

\* Path(s): parsing drops empty and "." components and keeps "..".
PathOf(s) == <<s[1]>> \o SelectSeq(Tail(s), LAMBDA c : c # DOT /\ c # <<>>)

\* str(p): the empty relative path is spelled ".".
StrOf(p) == IF p = <<REL>> THEN <<REL, DOT>> ELSE p

\* Truth value of a Python str: only the empty string is false.
StrTruthy(s) == s # <<REL>>

\* p / q
JoinPath(p, q) == IF q[1] = ROOT THEN q ELSE p \o Tail(q)

\* p.name
NameOf(p) == IF Len(p) > 1 THEN p[Len(p)] ELSE <<>>

\* p.parent
ParentOf(p) == IF Len(p) > 1 THEN SubSeq(p, 1, Len(p) - 1) ELSE p

\* The process's working directory and the symbolic links of the file system.
Cwd == <<ROOT, <<"i">>>>

Symlinks == (<<ROOT, <<"i">>, <<"l">>>> :> <<ROOT, <<"i">>, <<"a", ":">>>>)

RECURSIVE ResolveFrom(_, _)
ResolveFrom(acc, rest) ==
    IF rest = <<>> THEN acc
    ELSE LET c == Head(rest)
             cand == Append(acc, c)
         IN IF c = DOTDOT
               THEN ResolveFrom(ParentOf(acc), Tail(rest))
            ELSE IF cand \in DOMAIN Symlinks
               THEN ResolveFrom(Symlinks[cand], Tail(rest))
            ELSE ResolveFrom(cand, Tail(rest))

\* Path.resolve(), strict=False: absolute, ".." and links removed; a
\* component that does not exist is kept and raises nothing.
Resolve(p) == ResolveFrom(<<ROOT>>, Tail(IF p[1] = ROOT THEN p ELSE Cwd \o Tail(p)))

-----------------------------------------------------------------------------
(* pathvalidate, libmagic, hashlib, tempfile *)

IllegalChars == {"/", ":", "?", "*"}

\* pathvalidate.sanitize_filename: the characters no file system accepts
\* are removed.
sanitize_filename(name) == SelectSeq(name, LAMBDA ch : ch \notin IllegalChars)

\* magic.from_file(path, mime=True) on the bytes of an existing file.
Detect(bytes) ==
    IF bytes = <<>> THEN "inode/x-empty"
    ELSE IF bytes[1] = 1 THEN "application/pdf"
    ELSE "text/plain"

\* hashlib.md5(bytes).hexdigest()
Md5Hex(bytes) == [alg |-> "md5", of |-> bytes]

SCRATCH_DIR == <<ROOT, <<"s">>>>

TmpNames == <<<<"t", "1">>, <<"t", "2">>, <<"t", "3">>, <<"t", "4">>>>

\* The directory tempfile.mkdtemp(dir=d) makes when it draws its k-th name.
MkdtempPath(d, k) == Append(d, TmpNames[k])

-----------------------------------------------------------------------------
(* DocumentSource *)

Sources == {"ConsumeFolder", "ApiUpload", "MailFetch"}

\* int(source): enum.auto() numbers the members from 1.
SourceInt(s) ==
    CASE s = "ConsumeFolder" -> 1
      [] s = "ApiUpload" -> 2
      [] s = "MailFetch" -> 3

\* DocumentSource(i)
DocumentSource(i) == CHOOSE s \in Sources : SourceInt(s) = i

-----------------------------------------------------------------------------
(* The file system *)

Contents == {<<1, 2>>, <<3>>}

FileA == <<ROOT, <<"i">>, <<"a", ":">>>>

FileQ == <<ROOT, <<"i">>, <<":">>>>

\* The operating system looks a path up from the working directory and
\* through the links.
Exists(fsys, p) == Resolve(p) \in DOMAIN fsys

\* Path.read_bytes() of an existing file.
ReadBytes(fsys, p) == fsys[Resolve(p)]

WriteBytesCut(fsys, p, bytes) == (p :> SubSeq(bytes, 1, Len(bytes) - 1)) @@ fsys

\* Path.write_bytes(bytes) that runs to its end: p holds exactly bytes.
WriteBytes(fsys, p, bytes) == (p :> bytes) @@ fsys

\* Path.write_bytes(bytes) that raises after the file was opened for writing:
\* p exists and holds the bytes written so far.
WriteBytesPartial(fsys, p, bytes) == (p :> SubSeq(bytes, 1, Len(bytes) \div 2)) @@ fsys

RemoveFile(fsys, p) == [q \in (DOMAIN fsys) \ {p} |-> fsys[q]]

\* What the operating system does to one working-copy creation: k is the name
\* mkdtemp draws (0: mkdtemp raises), wr the fate of write_bytes.
WriteFates == {"ok", "open_fails", "partial"}

FreeTmp == {k \in 1..MaxTmp : MkdtempPath(SCRATCH_DIR, k) \notin dirs}

IOs == [k : {0} \cup FreeTmp, wr : WriteFates]

-----------------------------------------------------------------------------
(* ConsumeDocument *)

Who == {"d", "r"}

NewDoc(source, original_file, working_file, mime_type) ==
    [source |-> source, original_file |-> original_file,
     working_file |-> working_file, mime_type |-> mime_type,
     checksum |-> None, path |-> None]

ResolveRaisesStrict(p, fsys) == ~Exists(fsys, p)

\* Line 89 calls resolve() with strict=False: a missing file raises nothing.
ResolveRaises(p, fsys) == FALSE

\* Line 92: if self.mime_type is None
NeedsProbe(mime_type) == mime_type = None

NeedsCopyAnySource(source, working_file) == working_file = None

\* Line 99: only a consume-folder document without a working file is copied.
NeedsCopy(source, working_file) ==
    source = "ConsumeFolder" /\ working_file = None

WorkingFilePathShared(tmp, original_file) ==
    Resolve(JoinPath(SCRATCH_DIR,
                     PathOf(<<REL, sanitize_filename(NameOf(original_file))>>)))

\* Lines 100-105: the sanitized name of the original inside the new directory.
WorkingFilePath(tmp, original_file) ==
    Resolve(JoinPath(tmp, PathOf(<<REL, sanitize_filename(NameOf(original_file))>>)))

Failed(stage, fsys, ds, probed, tmpdir) ==
    [ok |-> FALSE, stage |-> stage, o |-> None, fs |-> fsys, dirs |-> ds,
     probed |-> probed, tmpdir |-> tmpdir]

\* ConsumeDocument.__post_init__ on the fields the constructor was given,
\* under the operating system's choices io.  tmpdir is the directory mkdtemp
\* made during the call, if it made one.  A name that sanitizes to nothing
\* makes the working file the new directory itself, which cannot be written.
PostInit(source, original_file, working_file, mime_type, io) ==
    LET orig == Resolve(PathOf(original_file))
        probe == NeedsProbe(mime_type)
        mime == IF probe THEN Detect(ReadBytes(fs, orig)) ELSE mime_type[1]
        tmp == MkdtempPath(SCRATCH_DIR, io.k)
        wf == WorkingFilePath(tmp, orig)
        made == dirs \cup {tmp}
    IN  IF ResolveRaises(orig, fs)
           THEN Failed("resolve", fs, dirs, FALSE, None)
        ELSE IF probe /\ ~Exists(fs, orig)
           THEN Failed("detect", fs, dirs, TRUE, None)
        ELSE IF ~NeedsCopy(source, working_file)
           THEN [ok |-> TRUE, stage |-> "done",
                 o |-> Some(NewDoc(source, orig, working_file, mime)),
                 fs |-> fs, dirs |-> dirs, probed |-> probe, tmpdir |-> None]
        ELSE IF io.k = 0
           THEN Failed("mkdtemp", fs, dirs, probe, None)
        ELSE IF ~Exists(fs, orig)
           THEN Failed("copy", fs, made, probe, Some(tmp))
        ELSE IF wf \in made \/ io.wr = "open_fails"
           THEN Failed("copy", fs, made, probe, Some(tmp))
        ELSE IF io.wr = "partial"
           THEN Failed("copy", WriteBytesPartial(fs, wf, ReadBytes(fs, orig)),
                       made, probe, Some(tmp))
        ELSE [ok |-> TRUE, stage |-> "done",
              o |-> Some(NewDoc(source, orig, Some(wf), mime)),
              fs |-> WriteBytes(fs, wf, ReadBytes(fs, orig)),
              dirs |-> made, probed |-> probe, tmpdir |-> Some(tmp)]

PathValueByWorkingFile(o) ==
    IF o.working_file # None THEN o.working_file ELSE Some(o.original_file)

\* Lines 121-123, the body of ConsumeDocument.path.
PathValue(o) ==
    IF o.source = "ConsumeFolder" THEN o.working_file ELSE Some(o.original_file)

\* functools.cached_property: the value the instance holds, or the body's.
PathGet(o) == IF o.path # None THEN o.path ELSE PathValue(o)

ChecksumHitNever(o) == FALSE

\* functools.cached_property: the body runs unless the instance holds a value.
ChecksumHit(o) == o.checksum # None

\* ConsumeDocument.as_dict
as_dict(o) ==
    [source |-> SourceInt(o.source),
     original_file |-> StrOf(o.original_file),
     working_file |-> IF o.working_file # None
                         THEN Some(StrOf(o.working_file[1])) ELSE None,
     mime_type |-> Some(o.mime_type)]

FromDictArgsNoMime(data) ==
    [source |-> DocumentSource(data.source),
     original_file |-> PathOf(data.original_file),
     working_file |-> IF data.working_file # None /\ StrTruthy(data.working_file[1])
                         THEN Some(PathOf(data.working_file[1])) ELSE None,
     mime_type |-> None]

\* The constructor arguments ConsumeDocument.from_dict builds from a record.
FromDictArgs(data) ==
    [source |-> DocumentSource(data.source),
     original_file |-> PathOf(data.original_file),
     working_file |-> IF data.working_file # None /\ StrTruthy(data.working_file[1])
                         THEN Some(PathOf(data.working_file[1])) ELSE None,
     mime_type |-> data.mime_type]

-----------------------------------------------------------------------------
(* The calls.  call records the last call: its result and what it did. *)

NoArgs == [source |-> "", working_file |-> None, mimeGiven |-> FALSE, missing |-> FALSE]

NoCall ==
    [op |-> "none", who |-> "", ok |-> TRUE, stage |-> "done", probed |-> FALSE,
     tmpdir |-> None, read |-> FALSE, args |-> NoArgs, retPath |-> None,
     retSum |-> None]

OrigInputs ==
    {FileA, <<REL, <<"a", ":">>>>, <<ROOT, <<"i">>, <<"x">>, DOTDOT, <<"l">>>>,
     <<ROOT, <<"i">>, <<"g">>>>, FileQ}

WorkingInputs == {None, Some(<<REL, <<"w">>>>)}

MimeInputs == {None, Some("application/pdf"), Some("")}

ArgsOf(source, original_file, working_file, mime_type) ==
    [source |-> source, working_file |-> working_file,
     mimeGiven |-> mime_type # None,
     missing |-> ~Exists(fs, PathOf(original_file))]

\* ConsumeDocument(source, original_file, working_file, mime_type)
Construct(source, original_file, working_file, mime_type, io) ==
    /\ obj["d"] = None
    /\ LET r == PostInit(source, original_file, working_file, mime_type, io)
       IN  /\ obj' = [obj EXCEPT !["d"] = r.o]
           /\ fs' = r.fs
           /\ dirs' = r.dirs
           /\ call' = [NoCall EXCEPT !.op = "construct", !.who = "d", !.ok = r.ok,
                          !.stage = r.stage, !.probed = r.probed, !.tmpdir = r.tmpdir,
                          !.args = ArgsOf(source, original_file, working_file,
                                          mime_type)]
    /\ UNCHANGED <<rec, ovVars>>

\* d.as_dict(), the record handed to the queue.
AsDict(w) ==
    /\ obj[w] # None
    /\ rec' = Some(as_dict(obj[w][1]))
    /\ call' = [NoCall EXCEPT !.op = "as_dict", !.who = w]
    /\ UNCHANGED <<fs, dirs, obj, ovVars>>

\* ConsumeDocument.from_dict(rec)
FromDict(io) ==
    /\ rec # None
    /\ LET a == FromDictArgs(rec[1])
           r == PostInit(a.source, a.original_file, a.working_file, a.mime_type, io)
       IN  /\ obj' = [obj EXCEPT !["r"] = IF r.ok THEN r.o ELSE @]
           /\ fs' = r.fs
           /\ dirs' = r.dirs
           /\ call' = [NoCall EXCEPT !.op = "from_dict", !.who = "r", !.ok = r.ok,
                          !.stage = r.stage, !.probed = r.probed, !.tmpdir = r.tmpdir,
                          !.args = ArgsOf(a.source, a.original_file, a.working_file,
                                          a.mime_type)]
    /\ UNCHANGED <<rec, ovVars>>

\* obj.path
GetPath(w) ==
    /\ obj[w] # None
    /\ LET o == obj[w][1]
           p == PathGet(o)
       IN  /\ obj' = [obj EXCEPT ![w] = Some([o EXCEPT !.path = p])]
           /\ call' = [NoCall EXCEPT !.op = "path", !.who = w, !.retPath = p]
    /\ UNCHANGED <<fs, dirs, rec, ovVars>>

\* obj.checksum
Checksum(w) ==
    /\ obj[w] # None
    /\ LET o == obj[w][1]
           p == PathGet(o)
       IN  IF ChecksumHit(o)
              THEN /\ call' = [NoCall EXCEPT !.op = "checksum", !.who = w,
                                             !.retSum = o.checksum]
                   /\ UNCHANGED obj
           ELSE IF p # None /\ Exists(fs, p[1])
              THEN LET sum == Some(Md5Hex(ReadBytes(fs, p[1])))
                   IN  /\ obj' = [obj EXCEPT ![w] =
                                     Some([o EXCEPT !.path = p, !.checksum = sum])]
                       /\ call' = [NoCall EXCEPT !.op = "checksum", !.who = w,
                                                 !.read = TRUE, !.retSum = sum]
           ELSE /\ obj' = [obj EXCEPT ![w] = Some([o EXCEPT !.path = p])]
                /\ call' = [NoCall EXCEPT !.op = "checksum", !.who = w,
                                          !.ok = FALSE, !.stage = "read",
                                          !.read = TRUE]
    /\ UNCHANGED <<fs, dirs, rec, ovVars>>

\* The files the documents' public paths name (not the directories).
EnvTargets ==
    {Resolve(PathGet(obj[w][1])[1]) :
        w \in {x \in Who : obj[x] # None /\ PathGet(obj[x][1]) # None}}
    \ ({<<ROOT>>, Cwd, SCRATCH_DIR} \cup dirs)

\* Another process writes the file a document's public path names.
EnvWrite(p, bytes) ==
    /\ p \in EnvTargets
    /\ fs' = WriteBytes(fs, p, bytes)
    /\ call' = [NoCall EXCEPT !.op = "env"]
    /\ UNCHANGED <<dirs, obj, rec, ovVars>>

\* Another process removes the file a document's public path names.
EnvRemove(p) ==
    /\ p \in EnvTargets
    /\ p \in DOMAIN fs
    /\ fs' = RemoveFile(fs, p)
    /\ call' = [NoCall EXCEPT !.op = "env"]
    /\ UNCHANGED <<dirs, obj, rec, ovVars>>

-----------------------------------------------------------------------------
(* datetime and dateutil *)

\* A datetime: the date, the second of the day, the microsecond, and the UTC
\* offset in seconds of an aware value (None for a naive one).  The last one
\* carries a local mean time offset, +00:53:28.
DateTimes ==
    {[date |-> 1, secs |-> 0, us |-> 0, tz |-> None],
     [date |-> 2, secs |-> 30, us |-> 5, tz |-> Some(0 - 5400)],
     [date |-> 3, secs |-> 0, us |-> 0, tz |-> Some(3208)]}

Abs(n) == IF n < 0 THEN 0 - n ELSE n

\* datetime.isoformat(): the text as its parts.  The fraction is written only
\* when the microsecond is not zero, the offset only for an aware value, and
\* the offset's seconds only when they are not zero.
isoformat(dt) ==
    <<<<"date", dt.date>>, <<"time", dt.secs>>>>
        \o (IF dt.us # 0 THEN <<<<"frac", dt.us>>>> ELSE <<>>)
        \o (IF dt.tz = None THEN <<>>
            ELSE LET a == Abs(dt.tz[1])
                     sign == IF dt.tz[1] < 0 THEN "-" ELSE "+"
                 IN  IF a % 60 = 0
                        THEN <<<<sign, a \div 3600, (a \div 60) % 60>>>>
                        ELSE <<<<sign, a \div 3600, (a \div 60) % 60, a % 60>>>>)

\* dateutil.parser.isoparse(): reads the same parts back; an offset is
\* accepted as hours and minutes only, ValueError otherwise.
isoparse(text) ==
    LET last == text[Len(text)]
        hasTz == last[1] \in {"+", "-"}
        hasFrac == Len(text) >= 3 /\ text[3][1] = "frac"
    IN  IF hasTz /\ Len(last) # 3
           THEN [ok |-> FALSE, v |-> None]
           ELSE [ok |-> TRUE,
                 v |-> Some([date |-> text[1][2], secs |-> text[2][2],
                             us |-> IF hasFrac THEN text[3][2] ELSE 0,
                             tz |-> IF hasTz
                                       THEN Some((IF last[1] = "-" THEN 0 - 1 ELSE 1)
                                                 * (last[2] * 3600 + last[3] * 60))
                                       ELSE None])]

-----------------------------------------------------------------------------
(* DocumentOverrides *)

Keys ==
    {"filename", "title", "correspondent_id", "document_type_id",
     "archive_serial_num", "tag_ids", "created"}

Opt(S) == {None} \cup {Some(x) : x \in S}

\* The DocumentOverrides objects of the model; every field defaults to None.
Overrides ==
    [filename : Opt({""}), title : Opt({"t"}),
     correspondent_id : Opt({0}), document_type_id : Opt({7}),
     tag_ids : Opt({<<>>}), created : Opt(DateTimes),
     asn : Opt({0})]

AllUnset ==
    [filename |-> None, title |-> None, correspondent_id |-> None,
     document_type_id |-> None, tag_ids |-> None, created |-> None,
     asn |-> None]

\* The field a key of the record is read into.
FieldOf(o, k) ==
    CASE k = "filename" -> o.filename
      [] k = "title" -> o.title
      [] k = "correspondent_id" -> o.correspondent_id
      [] k = "document_type_id" -> o.document_type_id
      [] k = "archive_serial_num" -> o.asn
      [] k = "tag_ids" -> o.tag_ids
      [] k = "created" -> o.created

\* DocumentOverrides.as_dict; a datetime is never false.
DocOvAsDict(o) ==
    [filename |-> o.filename, title |-> o.title,
     correspondent_id |-> o.correspondent_id,
     document_type_id |-> o.document_type_id,
     archive_serial_num |-> o.asn,
     tag_ids |-> o.tag_ids,
     created |-> IF o.created # None THEN Some(isoformat(o.created[1])) ELSE None]

GetItemDefault(data, k) ==
    [ok |-> TRUE, v |-> IF k \in DOMAIN data THEN data[k] ELSE None]

\* data[k]: KeyError when the key is missing.
GetItem(data, k) ==
    [ok |-> k \in DOMAIN data, v |-> IF k \in DOMAIN data THEN data[k] ELSE None]

\* The order in which DocumentOverrides.from_dict reads the keys.
KeyOrder ==
    <<"filename", "title", "correspondent_id", "document_type_id", "tag_ids",
      "created", "archive_serial_num">>

\* What reading the i-th argument raises: KeyError for a missing key,
\* ValueError for a created text isoparse rejects, "" for nothing.
ArgError(data, i) ==
    LET g == GetItem(data, KeyOrder[i])
    IN  IF ~g.ok THEN "KeyError"
        ELSE IF KeyOrder[i] = "created" /\ g.v # None /\ ~isoparse(g.v[1]).ok
           THEN "ValueError"
        ELSE ""

\* DocumentOverrides.from_dict; the text of a datetime is never empty.  The
\* first argument that raises ends the call.
DocOvFromDict(data) ==
    LET g(k) == GetItem(data, k)
        bad == {i \in 1..Len(KeyOrder) : ArgError(data, i) # ""}
    IN  IF bad # {}
           THEN [ok |-> FALSE,
                 err |-> ArgError(data, CHOOSE i \in bad : \A j \in bad : i <= j),
                 o |-> None]
           ELSE [ok |-> TRUE, err |-> "",
                 o |-> Some([filename |-> g("filename").v,
                             title |-> g("title").v,
                             correspondent_id |-> g("correspondent_id").v,
                             document_type_id |-> g("document_type_id").v,
                             tag_ids |-> g("tag_ids").v,
                             created |-> IF g("created").v # None
                                            THEN isoparse(g("created").v[1]).v
                                            ELSE None,
                             asn |-> g("archive_serial_num").v])]

OvIdle == [op |-> "none", ok |-> TRUE, err |-> "", missing |-> {}]

\* DocumentOverrides(...)
OvConstruct(o) ==
    /\ ov = None
    /\ ov' = Some(o)
    /\ ocall' = [OvIdle EXCEPT !.op = "ov_construct"]
    /\ UNCHANGED <<orec, ov2, docVars>>

\* ov.as_dict(), the record handed to the queue.
OvAsDict ==
    /\ ov # None
    /\ orec' = Some(DocOvAsDict(ov[1]))
    /\ ocall' = [OvIdle EXCEPT !.op = "ov_as_dict"]
    /\ UNCHANGED <<ov, ov2, docVars>>

\* DocumentOverrides.from_dict on the record with only the keys in present.
OvFromDict(present) ==
    /\ orec # None
    /\ LET data == [k \in present |-> orec[1][k]]
           r == DocOvFromDict(data)
       IN  /\ ov2' = r.o
           /\ ocall' = [op |-> "ov_from_dict", ok |-> r.ok, err |-> r.err,
                        missing |-> Keys \ present]
    /\ UNCHANGED <<ov, orec, docVars>>

Init ==
    /\ fs = (FileA :> <<1, 2>>) @@ (FileQ :> <<3>>)
    /\ dirs = {}
    /\ obj = [w \in Who |-> None]
    /\ rec = None
    /\ call = NoCall
    /\ ov = None
    /\ orec = None
    /\ ov2 = None
    /\ ocall = OvIdle

Next ==
    \/ \E source \in Sources, original_file \in OrigInputs,
          working_file \in WorkingInputs, mime_type \in MimeInputs, io \in IOs :
          Construct(source, original_file, working_file, mime_type, io)
    \/ \E w \in Who : AsDict(w)
    \/ \E io \in IOs : FromDict(io)
    \/ \E w \in Who : GetPath(w)
    \/ \E w \in Who : Checksum(w)
    \/ \E p \in EnvTargets, bytes \in Contents : EnvWrite(p, bytes)
    \/ \E p \in EnvTargets : EnvRemove(p)

Spec == Init /\ [][Next]_vars

NextOv ==
    \/ \E o \in Overrides : OvConstruct(o)
    \/ OvAsDict
    \/ \E present \in SUBSET Keys : OvFromDict(present)

SpecOv == Init /\ [][NextOv]_vars

-----------------------------------------------------------------------------
(* Properties of ConsumeDocument *)

Constructs == {"construct", "from_dict"}

ProgramOps == {"construct", "from_dict", "as_dict", "path", "checksum"}

Fields(o) == <<o.source, o.original_file, o.working_file, o.mime_type>>

\* C1: from_dict(d.as_dict()) succeeds with the source, original_file,
\* working_file and mime_type of d, without probing the content type and
\* without making a scratch directory or a working copy.
C1_RoundTrip ==
    call.op = "from_dict" =>
        /\ call.ok
        /\ ~call.probed
        /\ call.tmpdir = None
        /\ obj["r"] # None
        /\ obj["d"] # None
        /\ Fields(obj["r"][1]) = Fields(obj["d"][1])

C1_Witness ==
    /\ call.op = "from_dict"
    /\ call.ok
    /\ obj["r"] # None
    /\ obj["r"][1].source = "ConsumeFolder"
    /\ obj["r"][1].working_file # None
    /\ ParentOf(obj["r"][1].working_file[1]) \in dirs

\* C3: a successful construction from the consume folder without a working
\* file sets working_file to a file other than the original that holds the
\* original's bytes, and path returns the working file of a consume-folder
\* document.
C3_WorkingCopy ==
    [][/\ (call'.op = "construct" /\ call'.ok
              /\ call'.args.source = "ConsumeFolder"
              /\ call'.args.working_file = None) =>
            LET o == obj'["d"][1]
            IN  /\ o.working_file # None
                /\ o.working_file[1] # o.original_file
                /\ o.working_file[1] \in DOMAIN fs'
                /\ fs'[o.working_file[1]] = fs[o.original_file]
                /\ fs'[o.working_file[1]] = fs'[o.original_file]
       /\ (call'.op = "path" /\ obj'[call'.who][1].source = "ConsumeFolder") =>
            LET o == obj'[call'.who][1]
            IN  /\ call'.retPath = o.working_file
                /\ call'.retPath # None
      ]_vars

C3_Witness ==
    /\ call.op = "path"
    /\ call.who = "d"
    /\ obj["d"][1].source = "ConsumeFolder"
    /\ call.retPath # None
    /\ call.retPath[1] \in DOMAIN fs
    /\ ParentOf(call.retPath[1]) \in dirs
    /\ call.retPath[1] # obj["d"][1].original_file

\* C4: constructing an ApiUpload or MailFetch document makes no scratch
\* directory and no file, leaves working_file as it was supplied, and path
\* returns original_file.
C4_NoCopy ==
    [][/\ (call'.op \in Constructs
              /\ call'.args.source \in {"ApiUpload", "MailFetch"}) =>
            /\ dirs' = dirs
            /\ fs' = fs
            /\ call'.tmpdir = None
            /\ call'.ok => obj'[call'.who][1].working_file = call'.args.working_file
       /\ (call'.op = "path"
              /\ obj'[call'.who][1].source \in {"ApiUpload", "MailFetch"}) =>
            call'.retPath = Some(obj'[call'.who][1].original_file)
      ]_vars

C4_Witness ==
    /\ call.op = "path"
    /\ obj[call.who][1].source = "MailFetch"
    /\ obj[call.who][1].working_file = None
    /\ call.retPath = Some(obj[call.who][1].original_file)
    /\ dirs = {}

\* C5: a checksum call on an instance that holds a digest reads no file and
\* returns that digest; a call on an instance that holds none reads the file
\* at path, keeps the digest when the read succeeds and keeps nothing when it
\* fails; a digest an instance holds never changes.
C5_Cached ==
    [][/\ call'.op = "checksum" =>
            LET o == obj[call'.who][1]
                n == obj'[call'.who][1]
            IN  /\ o.checksum # None =>
                    /\ call'.ok
                    /\ ~call'.read
                    /\ call'.retSum = o.checksum
                /\ o.checksum = None =>
                    /\ call'.read
                    /\ call'.ok =>
                         /\ call'.retSum = Some(Md5Hex(ReadBytes(fs, PathGet(o)[1])))
                         /\ n.checksum = call'.retSum
                    /\ ~call'.ok =>
                         /\ n.checksum = None
                         /\ call'.retSum = None
       /\ \A w \in Who :
            (call'.op # "from_dict" /\ obj[w] # None /\ obj[w][1].checksum # None) =>
                (obj'[w] # None /\ obj'[w][1].checksum = obj[w][1].checksum)
      ]_vars

C5_Witness ==
    /\ call.op = "checksum"
    /\ call.ok
    /\ ~call.read
    /\ LET p == PathGet(obj[call.who][1])[1]
       IN  \/ ~Exists(fs, p)
           \/ call.retSum # Some(Md5Hex(ReadBytes(fs, p)))

\* C6 as claimed: path returns working_file whenever it is set, and
\* original_file otherwise.
C6_PathByWorkingFile ==
    call.op = "path" =>
        LET o == obj[call.who][1]
        IN  call.retPath =
                IF o.working_file # None THEN o.working_file
                ELSE Some(o.original_file)

\* C6, amended: path returns working_file for a ConsumeFolder document and
\* original_file for an ApiUpload or MailFetch document, also when that
\* document has a working_file; the call changes no file, no directory and no
\* field, and a repeated call returns what the first returned.
C6_PathBySource ==
    [][call'.op = "path" =>
            LET o == obj[call'.who][1]
                n == obj'[call'.who][1]
            IN  /\ call'.ok
                /\ call'.retPath =
                       IF o.source = "ConsumeFolder" THEN o.working_file
                       ELSE Some(o.original_file)
                /\ call'.retPath # None
                /\ o.path # None => call'.retPath = o.path
                /\ Fields(n) = Fields(o)
                /\ n.checksum = o.checksum
                /\ fs' = fs /\ dirs' = dirs /\ rec' = rec
      ]_vars

C6_Witness ==
    /\ call.op = "path"
    /\ obj[call.who][1].source = "ApiUpload"
    /\ obj[call.who][1].working_file # None
    /\ call.retPath = Some(obj[call.who][1].original_file)
    /\ call.retPath # obj[call.who][1].working_file

\* C8: no call of the program changes or removes a file that exists, and
\* every file a call creates lies in a directory that call created.
C8_OriginalUntouched ==
    [][call'.op \in ProgramOps =>
            /\ \A p \in DOMAIN fs : p \in DOMAIN fs' /\ fs'[p] = fs[p]
            /\ \A p \in (DOMAIN fs') \ (DOMAIN fs) : ParentOf(p) \in dirs' \ dirs
            /\ dirs \subseteq dirs'
      ]_vars

C8_Witness ==
    /\ call.op = "construct"
    /\ call.ok
    /\ call.tmpdir # None
    /\ \E p \in DOMAIN fs : ParentOf(p) = call.tmpdir[1]
    /\ obj["d"][1].original_file \in DOMAIN fs

C10_NoArtifact ==
    (call.op \in Constructs /\ ~call.ok /\ call.tmpdir # None) =>
        /\ call.tmpdir[1] \notin dirs
        /\ \A p \in DOMAIN fs : ParentOf(p) # call.tmpdir[1]

-----------------------------------------------------------------------------
(* Properties of DocumentOverrides *)

WholeMinutes(o) == o.created = None \/ o.created[1].tz = None
                   \/ o.created[1].tz[1] % 60 = 0

\* C2: from_dict(o.as_dict()) succeeds and equals o field for field, for
\* unset fields and for set ones that are false (0, "", the empty list), and
\* the record of the object with every field unset holds only nulls.
C2_RoundTrip ==
    /\ (ocall.op = "ov_from_dict" /\ ocall.missing = {}) =>
          /\ ocall.ok
          /\ ov2 = ov
    /\ (orec # None /\ ov = Some(AllUnset)) =>
          /\ DOMAIN orec[1] = Keys
          /\ \A k \in Keys : orec[1][k] = None

\* The round trip of C2 for the objects whose created is unset, naive, or
\* aware with an offset of whole minutes.
RoundTripWholeMinutes ==
    /\ (ocall.op = "ov_from_dict" /\ ocall.missing = {} /\ WholeMinutes(ov[1])) =>
          /\ ocall.ok
          /\ ov2 = ov
    /\ (orec # None /\ ov = Some(AllUnset)) =>
          /\ DOMAIN orec[1] = Keys
          /\ \A k \in Keys : orec[1][k] = None

\* C7 as claimed: from_dict accepts a record that lacks keys and leaves the
\* fields of the missing keys unset.
C7_MissingKeysAccepted ==
    (ocall.op = "ov_from_dict" /\ ocall.missing # {}) =>
        /\ ocall.ok
        /\ ov2 # None
        /\ \A k \in ocall.missing : FieldOf(ov2[1], k) = None

\* C7, amended: from_dict needs all seven keys: on a record that lacks any of
\* them it fails and builds no object.  The error is KeyError, except that a
\* record lacking only archive_serial_num whose created text isoparse rejects
\* fails with that ValueError first.  When from_dict succeeds, a key that is
\* present with value null yields an unset field.
C7_MissingKeysRejected ==
    /\ (ocall.op = "ov_from_dict" /\ ocall.missing # {}) =>
          /\ ~ocall.ok
          /\ ov2 = None
          /\ ocall.err \in {"KeyError", "ValueError"}
          /\ ocall.err = "ValueError" =>
                /\ ocall.missing = {"archive_serial_num"}
                /\ ~WholeMinutes(ov[1])
    /\ (ocall.op = "ov_from_dict" /\ ocall.ok) =>
          /\ ov2 # None
          /\ \A k \in Keys : orec[1][k] = None => FieldOf(ov2[1], k) = None

C7_Witness ==
    /\ ocall.op = "ov_from_dict"
    /\ ocall.missing = {"created"}
    /\ ~ocall.ok
    /\ ocall.err = "KeyError"
    /\ ov2 = None
    /\ orec[1]["title"] = None

====
